---- MODULE Spec2Model ----
(***************************************************************************)
(* Model of the fil-data-prep command (filDataPrep, writeNode, getRoots):  *)
(* three goroutines joined by two io.Pipe channels and a sync.WaitGroup.   *)
(*                                                                         *)
(* Strings are sequences of one-character strings; Go's 0-based indexing   *)
(* is kept by the operators At and SliceFrom.                              *)
(***************************************************************************)
EXTENDS Integers, Sequences, FiniteSets, TLC

(***************************************************************************)
(* Bounds of the model.                                                    *)
(***************************************************************************)
\* largest number of InputPath arguments on the command line
MaxArgs == 2
\* longest descriptor stream handed to getRoots on its own
MaxStream == 6
\* largest number of nodes handed to the byte-level frame emitter
MaxFrameNodes == 2
MaxFairArgs == 1

(***************************************************************************)
(* Go slices and strings.                                                  *)
(***************************************************************************)
Range(s) == {s[i] : i \in 1..Len(s)}

\* s[i] with Go's 0-based index
At(s, i) == s[i + 1]

\* s[i:] with Go's 0-based index
SliceFrom(s, i) == SubSeq(s, i + 1, Len(s))

IsPrefix(p, s) == Len(p) <= Len(s) /\ SubSeq(s, 1, Len(p)) = p

\* index of the first occurrence of the character sep in s, 0 when absent
RECURSIVE IndexFrom(_, _, _)
IndexFrom(s, sep, i) ==
    IF i > Len(s) THEN 0
    ELSE IF s[i] = sep THEN i
    ELSE IndexFrom(s, sep, i + 1)

\* strings.Split(s, sep) for a one-character separator: n separators give
\* n + 1 pieces, empty pieces included
RECURSIVE Split(_, _)
Split(s, sep) ==
    LET i == IndexFrom(s, sep, 1) IN
    IF i = 0 THEN <<s>>
    ELSE <<SubSeq(s, 1, i - 1)>> \o Split(SubSeq(s, i + 1, Len(s)), sep)

RECURSIVE JoinWith(_, _)
JoinWith(pieces, sep) ==
    IF Len(pieces) = 0 THEN <<>>
    ELSE IF Len(pieces) = 1 THEN pieces[1]
    ELSE pieces[1] \o <<sep>> \o JoinWith(Tail(pieces), sep)

\* filepath.Clean restricted to the paths of the model (no "." or ".."):
\* empty pieces are dropped, a leading "/" is kept
Clean(p) ==
    LET ps  == Split(p, "/")
        ne  == SelectSeq(ps, LAMBDA c : c # <<>>)
        abs == Len(p) > 0 /\ p[1] = "/"
    IN  IF abs THEN <<"/">> \o JoinWith(ne, "/") ELSE JoinWith(ne, "/")

(***************************************************************************)
(* The file system the command runs on, and the arguments tried.           *)
(***************************************************************************)
\* regular files, in the order filepath.Walk meets them
FSFiles ==
    << <<"/", "a", "/", "x">>,
       <<"a", "/", "b", "/", "c", "/", "z">>,
       <<"a", "/", "x">>,
       <<"f">> >>

\* directories (e is empty)
FSDirs ==
    { <<"/">>, <<"/", "a">>, <<"a">>, <<"a", "/", "b">>,
      <<"a", "/", "b", "/", "c">>, <<"e">> }

\* the InputPath arguments tried: a bare file, directories one to three
\* segments deep, a trailing slash, a file under a directory, an absolute
\* path, an empty directory and a path that does not exist
ArgPaths ==
    { <<"f">>, <<"a">>, <<"a", "/">>, <<"a", "/", "b">>,
      <<"a", "/", "b", "/", "c">>, <<"a", "/", "x">>, <<"/", "a">>,
      <<"e">>, <<"g">> }

Exists(p) == Clean(p) \in FSDirs \/ Clean(p) \in Range(FSFiles)

\* getAllFileReadersFromPath: the files under path in Walk order; the walk
\* root is reported as given, every other file as Join(root, relative)
Under(p, f) == f = Clean(p) \/ IsPrefix(Clean(p) \o <<"/">>, f)
getAllFileReadersFromPath(p) ==
    IF Clean(p) \in Range(FSFiles) THEN <<p>>
    ELSE SelectSeq(FSFiles, LAMBDA f : Under(p, f))

RECURSIVE ExpandPaths(_)
ExpandPaths(ps) ==
    IF Len(ps) = 0 THEN <<>>
    ELSE getAllFileReadersFromPath(ps[1]) \o ExpandPaths(Tail(ps))

NoDuplicates(s) == \A i, j \in 1..Len(s) : s[i] = s[j] => i = j


(***************************************************************************)
(* The descriptor side channel: getRoots.                                  *)
(***************************************************************************)
\* the characters a content identifier is written with in a descriptor
CidChars == {"1", "2", "3", "4", "5", "6", "7", "8"}

\* the zero value of the roots struct
ZeroRoots == [Cid |-> <<>>]

\* json.Unmarshal of one line into a roots value: a line is a JSON object
\* "{" cid "}" (cid possibly empty); anything else is a syntax error and
\* leaves the target at its zero value
Unmarshal(el) ==
    IF /\ Len(el) >= 2
       /\ el[1] = "{"
       /\ el[Len(el)] = "}"
       /\ \A i \in 2..(Len(el) - 1) : el[i] \in CidChars
    THEN [err |-> FALSE, r |-> [Cid |-> SubSeq(el, 2, Len(el) - 1)]]
    ELSE [err |-> TRUE, r |-> ZeroRoots]

\* the loop of getRoots over the pieces of the stream: an empty piece is
\* skipped, every other piece appends the unmarshalled value, whether
\* Unmarshal failed or not
RECURSIVE getRootsLoop(_)
getRootsLoop(els) ==
    IF Len(els) = 0 THEN <<>>
    ELSE IF els[1] = <<>> THEN getRootsLoop(Tail(els))
    ELSE <<Unmarshal(els[1]).r>> \o getRootsLoop(Tail(els))

\* getRoots applied to the bytes io.ReadAll returned
getRoots(stream) == getRootsLoop(Split(stream, "\n"))

\* the lines of the stream that getRoots reports as failed
FailedLines(stream) ==
    SelectSeq(Split(stream, "\n"), LAMBDA el : el # <<>> /\ Unmarshal(el).err)

\* the lines of the stream that unmarshal without error
ValidLines(stream) ==
    SelectSeq(Split(stream, "\n"), LAMBDA el : el # <<>> /\ ~Unmarshal(el).err)

(***************************************************************************)
(* Tree assembly: constructTree and getDirectoryNodes.                     *)
(***************************************************************************)
Components(f) == Split(f, "/")

\* the leaf identifier of the i-th file: the i-th RootRecord, the zero value
\* when the Chunking Engine delivered fewer records than files
LeafCid(roots, i) == IF i <= Len(roots) THEN roots[i].Cid ELSE ZeroRoots.Cid

\* the names directly under directory d, in order of first insertion
RECURSIVE ChildNames(_, _, _)
ChildNames(fs, d, n) ==
    IF n = 0 THEN <<>>
    ELSE LET prev == ChildNames(fs, d, n - 1)
             c    == Components(fs[n])
         IN  IF /\ IsPrefix(d, c)
                /\ Len(c) > Len(d)
                /\ c[Len(d) + 1] \notin Range(prev)
             THEN Append(prev, c[Len(d) + 1])
             ELSE prev

IsDirPath(fs, d) ==
    \E i \in 1..Len(fs) : IsPrefix(d, Components(fs[i])) /\ Len(Components(fs[i])) > Len(d)

FileIndex(fs, d) == CHOOSE i \in 1..Len(fs) : Components(fs[i]) = d

\* the serialized payload of a directory node: its links in order, each a
\* child name and the child's content identifier
RECURSIVE Serialize(_)
Serialize(links) ==
    IF Len(links) = 0 THEN <<>>
    ELSE links[1].name \o <<":">> \o links[1].cid \o <<";">> \o Serialize(Tail(links))

\* the content identifier derived from a payload (a hash, kept injective)
CidOf(data) == <<"Q">> \o data

\* the directory node built for directory d: its links in insertion order,
\* its payload, and an identifier that is a function of the payload alone
RECURSIVE DirNode(_, _, _), LinksOf(_, _, _, _)
LinksOf(fs, roots, d, names) ==
    IF Len(names) = 0 THEN <<>>
    ELSE LET child == Append(d, names[1])
             cid   == IF IsDirPath(fs, child)
                      THEN DirNode(fs, roots, child).cid
                      ELSE LeafCid(roots, FileIndex(fs, child))
         IN  <<[name |-> names[1], cid |-> cid]>> \o LinksOf(fs, roots, d, Tail(names))
DirNode(fs, roots, d) ==
    LET links == LinksOf(fs, roots, d, ChildNames(fs, d, Len(fs)))
    IN  [path |-> d, links |-> links, data |-> Serialize(links),
         cid |-> CidOf(Serialize(links))]

\* constructTree: the tree is the set of directory paths under the synthetic
\* super-root <<>>; getDirectoryNodes: its directory nodes root first, every
\* directory before its subdirectories, children in insertion order
RECURSIVE PreOrder(_, _, _), PreOrderAll(_, _, _, _)
PreOrderAll(fs, roots, d, names) ==
    IF Len(names) = 0 THEN <<>>
    ELSE LET child == Append(d, names[1])
         IN  (IF IsDirPath(fs, child) THEN PreOrder(fs, roots, child) ELSE <<>>)
             \o PreOrderAll(fs, roots, d, Tail(names))
PreOrder(fs, roots, d) ==
    <<DirNode(fs, roots, d)>> \o PreOrderAll(fs, roots, d, ChildNames(fs, d, Len(fs)))

getDirectoryNodes(fs, roots) == PreOrder(fs, roots, <<>>)

\* Cid() and RawData() of a node
Cid(nd) == nd.cid
RawData(nd) == nd.data

\* cid.Undef, the zero value of cid.Cid
Undef == <<>>


(***************************************************************************)
(* Frames: writeNode and the reader of the outbound stream.                *)
(***************************************************************************)
\* appendVarint(tgt[:0], v): unsigned LEB128, seven bits per byte, low
\* group first, the high bit set on every byte but the last
RECURSIVE appendVarint(_, _)
appendVarint(tgt, v) ==
    IF v > 127 THEN appendVarint(Append(tgt, 128 + (v % 128)), v \div 128)
    ELSE Append(tgt, v)

\* the length writeNode puts in front of a frame
FrameLenBroken(c, d) == Len(d)
FrameLen(c, d) == Len(c) + Len(d)

\* the three byte slices writeNode writes for one node, in order
FrameParts(nd) ==
    LET c == Cid(nd)
        d == RawData(nd)
    IN  <<appendVarint(<<>>, FrameLen(c, d)), c, d>>

PartNames == <<"size", "key", "data">>


(***************************************************************************)
(* State of one invocation of filDataPrep.                                 *)
(***************************************************************************)
VARIABLES
    paths,       \* c.Args().Slice()
    files,       \* the file names collected from the walk
    pcMain,      \* "args", "walk", "spawn", "wait", "returned", "failed"
    wg,          \* the WaitGroup counter
    printed,     \* the root cid printed before returning
    pcChunk,     \* Chunking Engine goroutine: "idle", "run", "done", "hung"
    unit,        \* number of FileUnits the Chunking Engine has finished
    blockSent,   \* the block of the current FileUnit is on the outbound pipe
    werrClosed,  \* werr.Close() has run
    woutClosed,  \* wout.Close() has run
    routClosed,  \* the consumer has closed the read end of the outbound pipe
    bs,          \* the bytes io.ReadAll has taken from rerr
    pcCore,      \* core goroutine: "idle", "read", "assemble", "resolve",
                 \* "write", "done", "panicked"
    rs,          \* the collected RootRecords
    nodes,       \* the NodeSequence
    rcid,        \* the shared root identifier
    emit,        \* the slice handed to writeNode
    emitBase,    \* index in nodes of emit[0]
    wi,          \* writeNode: index of the node being written
    wpart,       \* writeNode: 0 size, 1 key, 2 data
    stream,      \* what the Packaging Engine has received from rout
    logs,        \* lines printed to standard output
    writeErrs,   \* the writes of writeNode that returned an error
    pcPkg,       \* packaging goroutine: "idle", "read", "closed", "meta",
                 \* "done", "panicked"
    meta,        \* root_cid written to the CSV rows and the YAML file
    panicking,   \* a goroutine panicked and its deferred calls have run
    crashed,     \* the runtime has ended the process after a panic
    rdPos,       \* reader of the outbound bytes: offset of the next frame
    decoded,     \* reader of the outbound bytes: the frames read back
    command,     \* the command invoked: "fil-data-prep", "split-and-commp"
    dryRun,      \* c.Bool("dry-run")
    engine,      \* the entry point of the Packaging Engine that was called:
                 \* "none", "SplitAndCommp", "SplitAndCommpDryRun"
    failure      \* the error that ended a goroutine or the action: "none",
                 \* "engine", "metadata", "index"

vars ==
    <<paths, files, pcMain, wg, printed, pcChunk, unit, blockSent, werrClosed,
      woutClosed, routClosed, bs, pcCore, rs, nodes, rcid, emit, emitBase, wi,
      wpart, stream, logs, writeErrs, pcPkg, meta, panicking, crashed, rdPos,
      decoded, command, dryRun, engine, failure>>

mainVars == <<paths, files, pcMain, printed>>
chunkVars == <<pcChunk, unit, blockSent>>
coreVars == <<pcCore, rs, nodes, rcid, emit, emitBase, wi, wpart>>
pkgVars == <<pcPkg, meta>>
readerVars == <<rdPos, decoded>>
flagVars == <<command, dryRun>>
optVars == <<flagVars, engine, failure>>

\* the process is running: no return from the action and no crash yet
Alive == ~crashed /\ pcMain \notin {"returned", "failed"}

RECURSIVE SeqsUpTo(_, _)
SeqsUpTo(S, n) ==
    IF n = 0 THEN {<<>>}
    ELSE LET shorter == SeqsUpTo(S, n - 1)
         IN  shorter \cup {Append(q, x) : q \in {r \in shorter : Len(r) = n - 1}, x \in S}

\* the argument lists tried; two FileUnits sharing a path are left out
ArgLists == {ps \in SeqsUpTo(ArgPaths, MaxArgs) : NoDuplicates(ExpandPaths(ps))}

Unstarted ==
    /\ files = <<>>
    /\ wg = 0
    /\ printed = <<"none">>
    /\ pcChunk = "idle"
    /\ unit = 0
    /\ blockSent = FALSE
    /\ werrClosed = FALSE
    /\ woutClosed = FALSE
    /\ routClosed = FALSE
    /\ bs = <<>>
    /\ rs = <<>>
    /\ nodes = <<>>
    /\ rcid = Undef
    /\ emit = <<>>
    /\ emitBase = 0
    /\ wi = 0
    /\ wpart = 0
    /\ stream = <<>>
    /\ logs = <<>>
    /\ writeErrs = <<>>
    /\ meta = <<>>
    /\ panicking = FALSE
    /\ crashed = FALSE
    /\ rdPos = 0
    /\ decoded = <<>>
    /\ engine = "none"
    /\ failure = "none"

Init ==
    /\ paths \in ArgLists
    /\ command = "fil-data-prep"
    /\ dryRun \in BOOLEAN
    /\ pcMain = "args"
    /\ pcCore = "idle"
    /\ pcPkg = "idle"
    /\ Unstarted

(***************************************************************************)
(* filDataPrep, the calling goroutine.                                     *)
(***************************************************************************)
\* c.Args().Present()
ArgsPresentAlways(ps) == TRUE
ArgsPresent(ps) == Len(ps) > 0

\* if !c.Args().Present() { return fmt.Errorf(...) }
CheckArgs ==
    /\ Alive
    /\ pcMain = "args"
    /\ pcMain' = IF ~ArgsPresent(paths) THEN "failed" ELSE "walk"
    /\ UNCHANGED <<paths, files, printed, wg, chunkVars, werrClosed, woutClosed,
                   routClosed, bs, coreVars, stream, logs, writeErrs, pkgVars,
                   panicking, crashed, readerVars, optVars>>

\* the loop over paths: the first path that cannot be walked ends the action
ExpandArgs ==
    /\ Alive
    /\ pcMain = "walk"
    /\ IF \E i \in 1..Len(paths) : ~Exists(paths[i])
       THEN pcMain' = "failed" /\ files' = files
       ELSE pcMain' = "spawn" /\ files' = ExpandPaths(paths)
    /\ UNCHANGED <<paths, printed, wg, chunkVars, werrClosed, woutClosed,
                   routClosed, bs, coreVars, stream, logs, writeErrs, pkgVars,
                   panicking, crashed, readerVars, optVars>>

\* if dryRun { SplitAndCommpDryRun(rout, ...) } else { SplitAndCommp(rout, ...) }
EngineModeAlwaysReal(dry) == "SplitAndCommp"
EngineMode(dry) == IF dry THEN "SplitAndCommpDryRun" ELSE "SplitAndCommp"

\* wg.Add(3), the two pipes, and the three go statements; the packaging
\* goroutine starts with the call of the engine, which then reads rout
Spawn ==
    /\ Alive
    /\ pcMain = "spawn"
    /\ wg' = 3
    /\ pcChunk' = "run"
    /\ pcCore' = "read"
    /\ pcPkg' = "read"
    /\ engine' = EngineMode(dryRun)
    /\ pcMain' = "wait"
    /\ UNCHANGED <<paths, files, printed, unit, blockSent, werrClosed, woutClosed,
                   routClosed, bs, rs, nodes, rcid, emit, emitBase, wi, wpart,
                   stream, logs, writeErrs, meta, panicking, crashed, readerVars,
                   flagVars, failure>>

\* wg.Wait() blocks until the counter is zero
WaitReturnsEarly(n) == n <= 1
WaitReturns(n) == n = 0

\* wg.Wait() returns, the root cid is printed, the action returns nil
WaitAndReturn ==
    /\ Alive
    /\ pcMain = "wait"
    /\ WaitReturns(wg)
    /\ printed' = rcid
    /\ pcMain' = "returned"
    /\ UNCHANGED <<paths, files, wg, chunkVars, werrClosed, woutClosed,
                   routClosed, bs, coreVars, stream, logs, writeErrs, pkgVars,
                   panicking, crashed, readerVars, optVars>>

(***************************************************************************)
(* The Chunking Engine goroutine.                                          *)
(***************************************************************************)
\* the descriptor the Chunking Engine writes for the n-th FileUnit
UnitCid(n) == <<"1", "2", "3", "4", "5", "6", "7", "8">>[n]
DescLine(n) == <<"{", UnitCid(n), "}", "\n">>

\* ProcessReader writes the block frame of the next FileUnit to wout; the
\* write returns once the Packaging Engine has read it
ChunkWriteBlock ==
    /\ Alive
    /\ pcChunk = "run"
    /\ unit < Len(files)
    /\ ~blockSent
    /\ ~routClosed
    /\ pcPkg = "read"
    /\ stream' = Append(stream, [src |-> "block", idx |-> unit, part |-> "frame",
                                 bytes |-> <<>>])
    /\ blockSent' = TRUE
    /\ UNCHANGED <<mainVars, wg, pcChunk, unit, werrClosed, woutClosed, routClosed,
                   bs, coreVars, logs, writeErrs, pkgVars, panicking, crashed,
                   readerVars, optVars>>

\* ProcessReader writes the descriptor of the FileUnit to werr; the write
\* returns once io.ReadAll in getRoots has read it
ChunkWriteDesc ==
    /\ Alive
    /\ pcChunk = "run"
    /\ unit < Len(files)
    /\ blockSent
    /\ pcCore = "read"
    /\ bs' = bs \o DescLine(unit + 1)
    /\ unit' = unit + 1
    /\ blockSent' = FALSE
    /\ UNCHANGED <<mainVars, wg, pcChunk, werrClosed, woutClosed, routClosed,
                   coreVars, stream, logs, writeErrs, pkgVars, panicking, crashed,
                   readerVars, optVars>>

\* ProcessReader returns nil; the deferred werr.Close() and wg.Done() run
ChunkReturn ==
    /\ Alive
    /\ pcChunk = "run"
    /\ unit = Len(files)
    /\ pcChunk' = "done"
    /\ werrClosed' = TRUE
    /\ wg' = wg - 1
    /\ UNCHANGED <<mainVars, unit, blockSent, woutClosed, routClosed, bs, coreVars,
                   stream, logs, writeErrs, pkgVars, panicking, crashed, readerVars, optVars>>

\* ProcessReader returns an error (a failed read of a file, a failed write to
\* a pipe): it is printed, and the deferred calls run
ChunkFail ==
    /\ Alive
    /\ pcChunk = "run"
    /\ unit < Len(files)
    /\ pcChunk' = "done"
    /\ logs' = Append(logs, [msg |-> "process reader error", idx |-> unit])
    /\ werrClosed' = TRUE
    /\ wg' = wg - 1
    /\ UNCHANGED <<mainVars, unit, blockSent, woutClosed, routClosed, bs, coreVars,
                   stream, writeErrs, pkgVars, panicking, crashed, readerVars, optVars>>
\* ProcessReader never returns (a read of a file that blocks for ever): the
\* deferred calls never run
ChunkHang ==
    /\ Alive
    /\ pcChunk = "run"
    /\ pcChunk' = "hung"
    /\ UNCHANGED <<mainVars, wg, unit, blockSent, werrClosed, woutClosed,
                   routClosed, bs, coreVars, stream, logs, writeErrs, pkgVars,
                   panicking, crashed, readerVars, optVars>>

(***************************************************************************)
(* The core goroutine: getRoots, tree assembly, root resolution, writeNode.*)
(***************************************************************************)
\* io.ReadAll(rerr) returns when the read meets end-of-stream, which is
\* when the write end has been closed
ReadAllReturnsEarly(closed) == TRUE
ReadAllReturns(closed) == closed

\* rs = getRoots(rerr)
CoreGetRoots ==
    /\ Alive
    /\ pcCore = "read"
    /\ ReadAllReturns(werrClosed)
    /\ rs' = getRoots(bs)
    /\ logs' = logs \o [i \in 1..Len(FailedLines(bs)) |->
                          [msg |-> "failed to unmarshal json", idx |-> i]]
    /\ pcCore' = "assemble"
    /\ UNCHANGED <<mainVars, wg, chunkVars, werrClosed, woutClosed, routClosed, bs,
                   nodes, rcid, emit, emitBase, wi, wpart, stream, writeErrs,
                   pkgVars, panicking, crashed, readerVars, optVars>>

\* tr := constructTree(files, rs); nodes := getDirectoryNodes(tr)
CoreAssemble ==
    /\ Alive
    /\ pcCore = "assemble"
    /\ nodes' = getDirectoryNodes(files, rs)
    /\ pcCore' = "resolve"
    /\ UNCHANGED <<mainVars, wg, chunkVars, werrClosed, woutClosed, routClosed, bs,
                   rs, rcid, emit, emitBase, wi, wpart, stream, logs, writeErrs,
                   pkgVars, panicking, crashed, readerVars, optVars>>

\* len(nodes) == 1 || len(paths) > 1
UseSuperRootBoth(nds, ps) == Len(nds) = 1 /\ Len(ps) > 1
UseSuperRootAlways(nds, ps) == TRUE
UseSuperRootArgsOnly(nds, ps) == Len(ps) > 1
UseSuperRoot(nds, ps) == Len(nds) = 1 \/ Len(ps) > 1

\* idx := len(strings.Split(paths[0], "/"))
RootIndexLast(ps) == Len(Split(At(ps, 0), "/")) - 1
RootIndex(ps) == Len(Split(At(ps, 0), "/"))

\* the if statement that sets rcid and calls writeNode; nodes[idx] with idx
\* out of range panics, and the deferred wout.Close() and wg.Done() run
CoreResolve ==
    /\ Alive
    /\ pcCore = "resolve"
    /\ IF UseSuperRoot(nodes, paths)
       THEN /\ rcid' = Cid(At(nodes, 0))
            /\ emit' = nodes
            /\ emitBase' = 0
            /\ pcCore' = "write"
            /\ UNCHANGED <<woutClosed, wg, panicking, failure>>
       ELSE IF RootIndex(paths) < Len(nodes)
       THEN /\ rcid' = Cid(At(nodes, RootIndex(paths)))
            /\ emit' = SliceFrom(nodes, RootIndex(paths))
            /\ emitBase' = RootIndex(paths)
            /\ pcCore' = "write"
            /\ UNCHANGED <<woutClosed, wg, panicking, failure>>
       ELSE /\ pcCore' = "panicked"
            /\ woutClosed' = TRUE
            /\ wg' = wg - 1
            /\ panicking' = TRUE
            /\ failure' = "index"
            /\ UNCHANGED <<rcid, emit, emitBase>>
    /\ UNCHANGED <<mainVars, chunkVars, werrClosed, routClosed, bs, rs, nodes, wi,
                   wpart, stream, logs, writeErrs, pkgVars, crashed, readerVars,
                   flagVars, engine>>

\* the node the range loop of writeNode visits in iteration i
NodeToWriteReversed(em, i) == At(em, Len(em) - 1 - i)
NodeToWrite(em, i) == At(em, i)

\* the loop of writeNode has visited every node
WriteDoneEarly(em, i) == i >= 1 \/ i = Len(em)
WriteDone(em, i) == i = Len(em)

\* a write to wout hands the bytes to the reader, or fails when the read end
\* is closed
CanWrite == ~routClosed /\ pcPkg = "read"
Item(part) ==
    [src |-> "core", idx |-> emitBase + wi, part |-> PartNames[part + 1],
     bytes |-> FrameParts(NodeToWrite(emit, wi))[part + 1]]
WriteErr(part) == [idx |-> emitBase + wi, part |-> PartNames[part + 1]]

\* whether writeNode prints a message when the write of this part fails
LogsFailure(part) == part = 2

\* one wout.Write of writeNode: on success the next part (or node) follows,
\* on failure the rest of the frame is skipped and the loop goes on
WritePart(part) ==
    /\ Alive
    /\ pcCore = "write"
    /\ ~WriteDone(emit, wi)
    /\ wpart = part
    /\ \/ /\ CanWrite
          /\ stream' = Append(stream, Item(part))
          /\ IF part = 2 THEN wi' = wi + 1 /\ wpart' = 0
                         ELSE wi' = wi /\ wpart' = part + 1
          /\ UNCHANGED <<logs, writeErrs>>
       \/ /\ routClosed
          /\ writeErrs' = Append(writeErrs, WriteErr(part))
          /\ logs' = IF LogsFailure(part)
                     THEN Append(logs, [msg |-> "failed to write car",
                                        idx |-> emitBase + wi])
                     ELSE logs
          /\ wi' = wi + 1
          /\ wpart' = 0
          /\ UNCHANGED stream
    /\ UNCHANGED <<mainVars, wg, chunkVars, werrClosed, woutClosed, routClosed, bs,
                   pcCore, rs, nodes, rcid, emit, emitBase, pkgVars, panicking,
                   crashed, readerVars, optVars>>

CoreWriteSize == WritePart(0)
CoreWriteKey == WritePart(1)
CoreWriteData == WritePart(2)

\* writeNode returns; the deferred wout.Close() and wg.Done() run
CoreReturn ==
    /\ Alive
    /\ pcCore = "write"
    /\ WriteDone(emit, wi)
    /\ pcCore' = "done"
    /\ woutClosed' = TRUE
    /\ wg' = wg - 1
    /\ UNCHANGED <<mainVars, chunkVars, werrClosed, routClosed, bs, rs, nodes, rcid,
                   emit, emitBase, wi, wpart, stream, logs, writeErrs, pkgVars,
                   panicking, crashed, readerVars, optVars>>

(***************************************************************************)
(* The Packaging Engine goroutine.                                         *)
(***************************************************************************)
\* SplitAndCommp (or its dry run) reads rout to end-of-stream and returns
\* without error
PkgEOF ==
    /\ Alive
    /\ pcPkg = "read"
    /\ woutClosed
    /\ pcPkg' = "meta"
    /\ UNCHANGED <<mainVars, wg, chunkVars, werrClosed, woutClosed, routClosed, bs,
                   coreVars, stream, logs, writeErrs, meta, panicking, crashed,
                   readerVars, optVars>>

\* the consumer gives up on the stream and closes its end before it returns
\* its error
PkgCloseEarly ==
    /\ Alive
    /\ pcPkg = "read"
    /\ routClosed' = TRUE
    /\ pcPkg' = "closed"
    /\ UNCHANGED <<mainVars, wg, chunkVars, werrClosed, woutClosed, bs, coreVars,
                   stream, logs, writeErrs, meta, panicking, crashed, readerVars, optVars>>

\* if err != nil { panic(...) } after the call of the engine
OnEngineErrorContinue == "meta"
OnEngineError == "panicked"

\* SplitAndCommp (or its dry run) returns an error: panic; the deferred
\* wg.Done() runs
PkgEngineFails ==
    /\ Alive
    /\ pcPkg \in {"read", "closed"}
    /\ failure' = "engine"
    /\ pcPkg' = OnEngineError
    /\ IF OnEngineError = "panicked"
       THEN wg' = wg - 1 /\ panicking' = TRUE
       ELSE UNCHANGED <<wg, panicking>>
    /\ UNCHANGED <<mainVars, chunkVars, werrClosed, woutClosed, routClosed, bs,
                   coreVars, stream, logs, writeErrs, meta, crashed, readerVars,
                   flagVars, engine>>

\* a metadata file cannot be created or written: panic; the deferred
\* wg.Done() runs
PkgMetaFails ==
    /\ Alive
    /\ pcPkg = "meta"
    /\ failure' = "metadata"
    /\ pcPkg' = "panicked"
    /\ wg' = wg - 1
    /\ panicking' = TRUE
    /\ UNCHANGED <<mainVars, chunkVars, werrClosed, woutClosed, routClosed, bs,
                   coreVars, stream, logs, writeErrs, meta, crashed, readerVars,
                   flagVars, engine>>

\* the CSV rows and the YAML document are written with rcid.String(); the
\* deferred calls run
PkgWriteMeta ==
    /\ Alive
    /\ pcPkg = "meta"
    /\ meta' = <<[csv |-> rcid, yaml |-> rcid]>>
    /\ pcPkg' = "done"
    /\ wg' = wg - 1
    /\ UNCHANGED <<mainVars, chunkVars, werrClosed, woutClosed, routClosed, bs,
                   coreVars, stream, logs, writeErrs, panicking, crashed,
                   readerVars, optVars>>

\* an unrecovered panic ends the process once the deferred calls have run;
\* a main goroutine that returns in between waits for that exit
Crash ==
    /\ ~crashed
    /\ panicking
    /\ crashed' = TRUE
    /\ UNCHANGED <<mainVars, wg, chunkVars, werrClosed, woutClosed, routClosed, bs,
                   coreVars, stream, logs, writeErrs, pkgVars, panicking,
                   readerVars, optVars>>

Next ==
    \/ CheckArgs
    \/ ExpandArgs
    \/ Spawn
    \/ WaitAndReturn
    \/ ChunkWriteBlock
    \/ ChunkWriteDesc
    \/ ChunkReturn
    \/ ChunkFail
    \/ ChunkHang
    \/ CoreGetRoots
    \/ CoreAssemble
    \/ CoreResolve
    \/ CoreWriteSize
    \/ CoreWriteKey
    \/ CoreWriteData
    \/ CoreReturn
    \/ PkgEOF
    \/ PkgCloseEarly
    \/ PkgEngineFails
    \/ PkgMetaFails
    \/ PkgWriteMeta
    \/ Crash

Spec == Init /\ [][Next]_vars

(***************************************************************************)
(* splitAndCommpAction, the split-and-commp command: one goroutine.        *)
(***************************************************************************)
InitSac ==
    /\ paths \in SeqsUpTo(ArgPaths, 1)
    /\ command = "split-and-commp"
    /\ dryRun \in BOOLEAN
    /\ pcMain = "sacReader"
    /\ pcCore = "idle"
    /\ pcPkg = "idle"
    /\ Unstarted

\* getReader: the first argument is opened, or standard input is taken
SacGetReader ==
    /\ Alive
    /\ pcMain = "sacReader"
    /\ IF ArgsPresent(paths) /\ ~Exists(At(paths, 0))
       THEN pcMain' = "failed" /\ failure' = "open"
       ELSE pcMain' = "sacSplit" /\ failure' = failure
    /\ UNCHANGED <<paths, files, printed, wg, chunkVars, werrClosed, woutClosed,
                   routClosed, bs, coreVars, stream, logs, writeErrs, pkgVars,
                   panicking, crashed, readerVars, flagVars, engine>>

\* the call of the engine: its error is returned
SacSplit ==
    /\ Alive
    /\ pcMain = "sacSplit"
    /\ engine' = EngineMode(dryRun)
    /\ \/ pcMain' = "sacMeta" /\ failure' = failure
       \/ pcMain' = "failed" /\ failure' = "engine"
    /\ UNCHANGED <<paths, files, printed, wg, chunkVars, werrClosed, woutClosed,
                   routClosed, bs, coreVars, stream, logs, writeErrs, pkgVars,
                   panicking, crashed, readerVars, flagVars>>

\* the metadata file cannot be created, or a CSV write fails: the error is
\* returned
SacMetaErr ==
    /\ Alive
    /\ pcMain = "sacMeta"
    /\ pcMain' = "failed"
    /\ failure' = "metadata"
    /\ UNCHANGED <<paths, files, printed, wg, chunkVars, werrClosed, woutClosed,
                   routClosed, bs, coreVars, stream, logs, writeErrs, pkgVars,
                   panicking, crashed, readerVars, flagVars, engine>>

\* the YAML file cannot be created or encoded: panic
SacMetaPanic ==
    /\ Alive
    /\ pcMain = "sacMeta"
    /\ pcMain' = "sacPanicked"
    /\ failure' = "metadata"
    /\ panicking' = TRUE
    /\ UNCHANGED <<paths, files, printed, wg, chunkVars, werrClosed, woutClosed,
                   routClosed, bs, coreVars, stream, logs, writeErrs, pkgVars,
                   crashed, readerVars, flagVars, engine>>

\* the CSV rows (no root_cid column) and the YAML document are written;
\* return nil
SacWriteMeta ==
    /\ Alive
    /\ pcMain = "sacMeta"
    /\ meta' = <<[csv |-> <<"none">>, yaml |-> <<"none">>]>>
    /\ pcMain' = "returned"
    /\ UNCHANGED <<paths, files, printed, wg, chunkVars, werrClosed, woutClosed,
                   routClosed, bs, coreVars, stream, logs, writeErrs, pcPkg,
                   panicking, crashed, readerVars, optVars>>

NextSac ==
    \/ SacGetReader
    \/ SacSplit
    \/ SacMetaErr
    \/ SacMetaPanic
    \/ SacWriteMeta

(***************************************************************************)
(* filDataPrep under fair scheduling, in runs where the Chunking Engine    *)
(* returns and the Packaging Engine reads to end-of-stream and succeeds.   *)
(***************************************************************************)
InitFair ==
    /\ paths \in {ps \in ArgLists : Len(ps) <= MaxFairArgs}
    /\ command = "fil-data-prep"
    /\ dryRun \in BOOLEAN
    /\ pcMain = "args"
    /\ pcCore = "idle"
    /\ pcPkg = "idle"
    /\ Unstarted

MainNext == CheckArgs \/ ExpandArgs \/ Spawn \/ WaitAndReturn
ChunkNext == ChunkWriteBlock \/ ChunkWriteDesc \/ ChunkReturn \/ ChunkFail
CoreNext ==
    \/ CoreGetRoots
    \/ CoreAssemble
    \/ CoreResolve
    \/ CoreWriteSize
    \/ CoreWriteKey
    \/ CoreWriteData
    \/ CoreReturn
PkgNext == PkgEOF \/ PkgWriteMeta

NextFair == MainNext \/ ChunkNext \/ CoreNext \/ PkgNext \/ Crash

\* the step of the core goroutine from tree assembly to root resolution:
\* among the steps of NextFair it is CoreAssemble, which is enabled exactly
\* when this step is
CoreAssembled == Alive /\ pcCore = "assemble" /\ pcCore' = "resolve"

\* the other steps of the core goroutine
CoreProgress ==
    \/ CoreGetRoots
    \/ CoreResolve
    \/ CoreWriteSize
    \/ CoreWriteKey
    \/ CoreWriteData
    \/ CoreReturn

\* every goroutine that can take a step is scheduled, and a panic ends the
\* process
SpecFair ==
    /\ InitFair
    /\ [][NextFair]_vars
    /\ WF_vars(MainNext)
    /\ WF_vars(ChunkNext)
    /\ WF_vars(CoreProgress)
    /\ WF_pcCore(CoreAssembled)
    /\ WF_vars(PkgNext)
    /\ WF_vars(Crash)

\* both commands of the program
InitBoth == Init \/ InitSac
NextBoth == Next \/ NextSac
SpecBoth == InitBoth /\ [][NextBoth]_vars


(***************************************************************************)
(* getRoots on its own: every descriptor stream up to MaxStream bytes.     *)
(***************************************************************************)
RootsAlphabet == {"{", "}", "1", "\n"}

InitRoots ==
    /\ bs \in SeqsUpTo(RootsAlphabet, MaxStream)
    /\ werrClosed = TRUE
    /\ paths = <<<<"f">>>>
    /\ files = <<<<"f">>>>
    /\ pcMain = "wait"
    /\ wg = 2
    /\ printed = <<"none">>
    /\ pcChunk = "done"
    /\ unit = 1
    /\ blockSent = FALSE
    /\ woutClosed = FALSE
    /\ routClosed = FALSE
    /\ pcCore = "read"
    /\ rs = <<>>
    /\ nodes = <<>>
    /\ rcid = Undef
    /\ emit = <<>>
    /\ emitBase = 0
    /\ wi = 0
    /\ wpart = 0
    /\ stream = <<>>
    /\ logs = <<>>
    /\ writeErrs = <<>>
    /\ pcPkg = "read"
    /\ meta = <<>>
    /\ panicking = FALSE
    /\ crashed = FALSE
    /\ rdPos = 0
    /\ decoded = <<>>
    /\ command = "fil-data-prep"
    /\ dryRun = FALSE
    /\ engine = "SplitAndCommp"
    /\ failure = "none"

NextRoots == CoreGetRoots

SpecRoots == InitRoots /\ [][NextRoots]_vars

(***************************************************************************)
(* writeNode on its own, with a reader of the bytes it puts on the pipe.   *)
(***************************************************************************)
\* n bytes that vary with their position
Pattern(n, seed) == [i \in 1..n |-> (seed + 37 * i) % 256]

\* binary content identifiers: CIDv0 (sha2-256 multihash), CIDv1 dag-pb with
\* a sha2-256 multihash, CIDv1 dag-pb with a two-byte identity multihash
FrameKeys ==
    { <<18, 32>> \o Pattern(32, 5),
      <<1, 112, 18, 32>> \o Pattern(32, 9),
      <<1, 112, 0, 2, 18, 32>> }

\* payload lengths on both sides of the one-byte varint limit
FrameDataLens == {0, 1, 93, 94}

FrameNodes ==
    { [path |-> <<>>, links |-> <<>>, data |-> Pattern(n, 200), cid |-> k] :
        n \in FrameDataLens, k \in FrameKeys }

RECURSIVE Flatten(_)
Flatten(items) ==
    IF Len(items) = 0 THEN <<>> ELSE items[1].bytes \o Flatten(Tail(items))

\* binary.ReadUvarint from offset pos: the value and the number of bytes
\* taken, or ok = FALSE when the bytes end inside the number
RECURSIVE ReadUvarint(_, _, _, _, _)
ReadUvarint(b, pos, acc, mult, n) ==
    IF pos + 1 > Len(b) THEN [ok |-> FALSE, v |-> 0, n |-> 0]
    ELSE IF b[pos + 1] >= 128
    THEN ReadUvarint(b, pos + 1, acc + (b[pos + 1] - 128) * mult, mult * 128, n + 1)
    ELSE [ok |-> TRUE, v |-> acc + b[pos + 1] * mult, n |-> n + 1]

Uvarint(b, pos) == ReadUvarint(b, pos, 0, 1, 0)

\* cid.CidFromBytes: the number of bytes of data the identifier takes
CidFromBytes(data) ==
    IF Len(data) > 2 /\ data[1] = 18 /\ data[2] = 32
    THEN [ok |-> Len(data) >= 34, n |-> 34]
    ELSE LET vers  == Uvarint(data, 0)
             codec == Uvarint(data, vers.n)
             mhc   == Uvarint(data, vers.n + codec.n)
             mhl   == Uvarint(data, vers.n + codec.n + mhc.n)
             total == vers.n + codec.n + mhc.n + mhl.n + mhl.v
         IN  [ok |-> /\ vers.ok /\ vers.v = 1
                     /\ codec.ok /\ mhc.ok /\ mhl.ok
                     /\ total <= Len(data),
              n |-> total]

\* one frame read back from offset pos: the length prefix, that many bytes,
\* the identifier at their start, the payload after it
ReadFrame(b, pos) ==
    LET l    == Uvarint(b, pos)
        data == SubSeq(b, pos + l.n + 1, pos + l.n + l.v)
        c    == CidFromBytes(data)
    IN  IF ~l.ok \/ pos + l.n + l.v > Len(b) THEN [ok |-> FALSE]
        ELSE IF ~c.ok THEN [ok |-> FALSE]
        ELSE [ok |-> TRUE, next |-> pos + l.n + l.v,
              cid |-> SubSeq(data, 1, c.n),
              data |-> SubSeq(data, c.n + 1, Len(data))]

InitFrame ==
    /\ emit \in {e \in SeqsUpTo(FrameNodes, MaxFrameNodes) : Len(e) >= 1}
    /\ nodes = emit
    /\ emitBase = 0
    /\ wi = 0
    /\ wpart = 0
    /\ pcCore = "write"
    /\ rcid = Cid(At(emit, 0))
    /\ paths = <<<<"f">>, <<"f">>>>
    /\ files = <<>>
    /\ pcMain = "wait"
    /\ wg = 2
    /\ printed = <<"none">>
    /\ pcChunk = "done"
    /\ unit = 0
    /\ blockSent = FALSE
    /\ werrClosed = TRUE
    /\ woutClosed = FALSE
    /\ routClosed = FALSE
    /\ bs = <<>>
    /\ rs = <<>>
    /\ stream = <<>>
    /\ logs = <<>>
    /\ writeErrs = <<>>
    /\ pcPkg = "read"
    /\ meta = <<>>
    /\ panicking = FALSE
    /\ crashed = FALSE
    /\ rdPos = 0
    /\ decoded = <<>>
    /\ command = "fil-data-prep"
    /\ dryRun = FALSE
    /\ engine = "SplitAndCommp"
    /\ failure = "none"

\* the reader takes the next frame once all of its bytes have arrived
FrameRead ==
    /\ ReadFrame(Flatten(stream), rdPos).ok
    /\ LET f == ReadFrame(Flatten(stream), rdPos)
       IN  /\ decoded' = Append(decoded, [cid |-> f.cid, data |-> f.data])
           /\ rdPos' = f.next
    /\ UNCHANGED <<mainVars, wg, chunkVars, werrClosed, woutClosed, routClosed, bs,
                   coreVars, stream, logs, writeErrs, pkgVars, panicking, crashed, optVars>>

NextFrame ==
    \/ CoreWriteSize
    \/ CoreWriteKey
    \/ CoreWriteData
    \/ CoreReturn
    \/ FrameRead

SpecFrame == InitFrame /\ [][NextFrame]_vars


(***************************************************************************)
(* Properties.                                                             *)
(***************************************************************************)
CoreItems == SelectSeq(stream, LAMBDA it : it.src = "core")
BlockItems == SelectSeq(stream, LAMBDA it : it.src = "block")

PartNum(name) == CHOOSE k \in 0..2 : PartNames[k + 1] = name

\* the frame parts of nodes[from], nodes[from + 1], ... as the reader should
\* receive them when no write fails
RECURSIVE ExpectedItems(_, _)
ExpectedItems(nds, from) ==
    IF from >= Len(nds) THEN <<>>
    ELSE [k \in 1..3 |-> [src |-> "core", idx |-> from, part |-> PartNames[k],
                          bytes |-> FrameParts(At(nds, from))[k]]]
         \o ExpectedItems(nds, from + 1)

\* the number of "/"-separated pieces of a path
PathSegments(p) == Cardinality({i \in 1..Len(p) : p[i] = "/"}) + 1

Resolved == pcCore \in {"write", "done"}

\* C1: when the NodeSequence has one element or more than one argument was
\* given, the core stage never fails on the lookup, rcid is the identifier
\* of NodeSequence[0], the whole NodeSequence is handed to the emitter, and
\* once the emitter is through without a failed write the frames received
\* are those of the whole NodeSequence, in order.
C1_SuperRootCase ==
    (/\ pcCore \in {"write", "done", "panicked"}
     /\ (Len(nodes) = 1 \/ Len(paths) > 1))
    => /\ pcCore # "panicked"
       /\ rcid = Cid(nodes[1])
       /\ emit = nodes
       /\ emitBase = 0
       /\ (pcCore = "done" /\ writeErrs = <<>>) => CoreItems = ExpectedItems(nodes, 0)

C1_Witness ==
    /\ pcCore = "done"
    /\ Len(paths) > 1
    /\ Len(nodes) >= 3
    /\ rcid = Cid(nodes[1])
    /\ Len(CoreItems) = 3 * Len(nodes)

C3_MalformedLineDropped ==
    (pcCore = "assemble" /\ Len(FailedLines(bs)) = 1)
    => rs = [i \in 1..Len(ValidLines(bs)) |-> Unmarshal(ValidLines(bs)[i]).r]

\* C4: every frame read back from the outbound bytes (length prefix, then
\* identifier, then payload) has exactly the key bytes and payload bytes of
\* the node written at that position; the reader is never stuck on a frame
\* that has been written in full, and when it has taken all the bytes of
\* the frames written in full it has read exactly those frames.
C4_FrameRoundTrip ==
    /\ Len(decoded) <= Len(emit)
    /\ \A i \in 1..Len(decoded) :
          /\ decoded[i].cid = Cid(emit[i])
          /\ decoded[i].data = RawData(emit[i])
    /\ Len(decoded) < wi => ReadFrame(Flatten(stream), rdPos).ok
    /\ (wpart = 0 /\ rdPos = Len(Flatten(stream))) => Len(decoded) = wi

C4_Witness ==
    /\ pcCore = "done"
    /\ Len(decoded) = 2
    /\ Len(Cid(emit[1])) + Len(RawData(emit[1])) >= 128
    /\ Len(Cid(emit[2])) + Len(RawData(emit[2])) < 128
    /\ rdPos = Len(Flatten(stream))

\* C5: the frame parts of the core stage appear on the outbound stream in
\* the order of the nodes handed to the emitter, size then key then data for
\* each node, each carrying the bytes of the node at its position, and no
\* node twice.
C5_FrameOrder ==
    /\ \A i, j \in 1..Len(CoreItems) :
          i < j => \/ CoreItems[i].idx < CoreItems[j].idx
                   \/ /\ CoreItems[i].idx = CoreItems[j].idx
                      /\ PartNum(CoreItems[i].part) < PartNum(CoreItems[j].part)
    /\ \A i \in 1..Len(CoreItems) :
          /\ CoreItems[i].idx >= emitBase
          /\ CoreItems[i].idx < Len(nodes)
          /\ CoreItems[i].bytes =
                FrameParts(At(nodes, CoreItems[i].idx))[PartNum(CoreItems[i].part) + 1]

C5_Witness ==
    /\ pcCore = "done"
    /\ Len(emit) >= 2
    /\ Len(CoreItems) = 3 * Len(emit)
    /\ CoreItems[1].idx = emitBase
    /\ CoreItems[4].idx = emitBase + 1


\* the descriptor bytes the Chunking Engine has written after n FileUnits
RECURSIVE DescBytes(_)
DescBytes(n) == IF n = 0 THEN <<>> ELSE DescBytes(n - 1) \o DescLine(n)

AssemblyStarted == pcCore \in {"assemble", "resolve", "write", "done", "panicked"}

\* C6: whenever the core stage has left getRoots (tree assembly, root
\* resolution or frame emission has started), the Chunking Engine stage has
\* closed the descriptor channel and has finished, every descriptor byte it
\* wrote has been read, and the records are those of the complete stream;
\* no frame of the core stage is on the outbound stream before that.
C6_AssemblyAfterEndOfStream ==
    /\ AssemblyStarted =>
          /\ werrClosed
          /\ pcChunk = "done"
          /\ bs = DescBytes(unit)
          /\ rs = getRoots(DescBytes(unit))
    /\ CoreItems # <<>> => werrClosed /\ pcChunk = "done"

C6_Witness ==
    /\ pcCore = "assemble"
    /\ unit >= 2
    /\ Len(rs) = unit
    /\ werrClosed

\* C7: on the outbound stream no block frame of the Chunking Engine comes
\* after a frame part of the core stage, the channel is closed only when the
\* core stage has no frame left to write, and when the Packaging Engine has
\* seen end-of-stream it has received every block frame written, followed by
\* every frame of the slice handed to the emitter.
C7_BlocksBeforeCoreFrames ==
    /\ \A i, j \in 1..Len(stream) :
          (stream[i].src = "core" /\ stream[j].src = "block") => j < i
    /\ woutClosed =>
          /\ pcCore \in {"done", "panicked"}
          /\ pcChunk = "done"
          /\ pcCore = "done" => wi = Len(emit)
    /\ pcPkg \in {"meta", "done"} =>
          /\ woutClosed
          /\ Len(BlockItems) = unit + (IF blockSent THEN 1 ELSE 0)
          /\ stream = BlockItems \o CoreItems
          /\ pcCore = "done" => CoreItems = ExpectedItems(nodes, emitBase)

C7_Witness ==
    /\ pcPkg = "meta"
    /\ Len(BlockItems) >= 2
    /\ Len(CoreItems) >= 6
    /\ stream[Len(BlockItems)].src = "block"
    /\ stream[Len(BlockItems) + 1].src = "core"

\* C8: in every state in which the action has returned, the Chunking Engine
\* goroutine, the core goroutine and the Packaging Engine goroutine have all
\* ended, the WaitGroup counter is zero, and a Packaging Engine goroutine
\* that ended normally has written the metadata.
C8_CompletionBarrier ==
    pcMain = "returned" =>
        /\ pcChunk = "done"
        /\ pcCore \in {"done", "panicked"}
        /\ pcPkg \in {"done", "panicked"}
        /\ wg = 0
        /\ pcPkg = "done" => meta # <<>>

C8_Witness ==
    /\ pcMain = "returned"
    /\ pcChunk = "done"
    /\ pcCore = "done"
    /\ pcPkg = "done"
    /\ meta # <<>>
    /\ printed = rcid
    /\ Len(stream) >= 4

\* C9: the root identifier written to the CSV rows and the YAML document and
\* printed for the caller is the identifier the core stage assigned; the
\* Packaging Engine goroutine never reads it before the core stage has
\* assigned it, so the unset identifier is never written or printed.
C9_ReportedRootAssigned ==
    /\ meta # <<>> =>
          /\ Resolved
          /\ meta[1].csv # Undef
          /\ meta[1].csv = Cid(At(nodes, emitBase))
          /\ meta[1].yaml = meta[1].csv
    /\ pcMain = "returned" => printed # Undef

\* C10: every write of writeNode that fails is logged with a message for its
\* frame, and the emitter goes on to the next node.
C10_WriteFailureLogged ==
    \A i \in 1..Len(writeErrs) :
        /\ \E j \in 1..Len(logs) :
              logs[j] = [msg |-> "failed to write car", idx |-> writeErrs[i].idx]
        /\ emitBase + wi > writeErrs[i].idx


\* no goroutine has been started, no pipe carries anything, nothing has been
\* written
NothingStarted ==
    /\ pcChunk = "idle"
    /\ pcCore = "idle"
    /\ pcPkg = "idle"
    /\ wg = 0
    /\ ~werrClosed /\ ~woutClosed /\ ~routClosed
    /\ bs = <<>>
    /\ stream = <<>>
    /\ meta = <<>>
    /\ logs = <<>>
    /\ printed = <<"none">>

\* C11: with no argument the action never gets past the argument check: it
\* returns the error while no goroutine has been started, no pipe has been
\* created and nothing has been written, and it never returns nil.
C11_MissingInputFailsFast ==
    Len(paths) = 0 =>
        /\ pcMain \in {"args", "failed"}
        /\ files = <<>>
        /\ NothingStarted

C11_Witness ==
    /\ Len(paths) = 0
    /\ pcMain = "failed"
    /\ NothingStarted

\* C12: when every argument can be walked and the walk yields no file, the
\* action returns an error before the pipes and the goroutines are created.
C12_ZeroFileUnitsFailFast ==
    (/\ Len(paths) > 0
     /\ \A i \in 1..Len(paths) : Exists(paths[i])
     /\ Len(ExpandPaths(paths)) = 0)
    => /\ pcMain \notin {"wait", "returned"}
       /\ NothingStarted

\* the process has ended with exit status 0: main returned and no goroutine
\* was in a panic
ExitedOk == pcMain = "returned" /\ ~panicking

\* C13: once the Packaging Engine has reported an error, the invocation is
\* aborted with that error surfaced (a panic in fil-data-prep, the returned
\* error in split-and-commp), the process never ends with success, and no
\* CSV or YAML metadata is written.
C13_PackagingFailureFatal ==
    failure = "engine" =>
        /\ meta = <<>>
        /\ ~ExitedOk
        /\ IF command = "fil-data-prep"
           THEN panicking /\ pcPkg = "panicked"
           ELSE pcMain = "failed"

C13_Witness ==
    /\ failure = "engine"
    /\ command = "fil-data-prep"
    /\ woutClosed
    /\ crashed

\* the NodeSequence and the root position that a list of arguments and a
\* list of RootRecords determine
RootFor(ps, recs) ==
    LET nds == getDirectoryNodes(ExpandPaths(ps), recs)
    IN  [nds |-> nds,
         k |-> IF Len(nds) = 1 \/ Len(ps) > 1 THEN 0 ELSE PathSegments(ps[1])]

IsPrefixOf(a, b) == Len(a) <= Len(b) /\ a = SubSeq(b, 1, Len(a))

\* C14: once the root is resolved, the Chunking Engine has ended, the
\* RootRecords used are all the records it wrote, and the root identifier, the frames on the
\* outbound stream, the root written to the metadata and the root printed
\* are those that the argument list and the RootRecords determine, whatever
\* the interleaving of the three stages was.
C14_Determinism ==
    Resolved =>
        LET e == RootFor(paths, getRoots(DescBytes(unit))) IN
        /\ pcChunk = "done"
        /\ rs = getRoots(DescBytes(unit))
        /\ e.k < Len(e.nds)
        /\ rcid = Cid(e.nds[e.k + 1])
        /\ writeErrs = <<>> => IsPrefixOf(CoreItems, ExpectedItems(e.nds, e.k))
        /\ (pcCore = "done" /\ writeErrs = <<>>) => CoreItems = ExpectedItems(e.nds, e.k)
        /\ meta # <<>> => meta[1] = [csv |-> Cid(e.nds[e.k + 1]), yaml |-> Cid(e.nds[e.k + 1])]
        /\ pcMain = "returned" => printed = Cid(e.nds[e.k + 1])

C14_Witness ==
    /\ Len(paths) = 2
    /\ pcMain = "returned"
    /\ ~panicking
    /\ Len(rs) >= 2
    /\ Len(BlockItems) = Len(rs)
    /\ Len(CoreItems) >= 6
    /\ printed = rcid
    /\ meta # <<>>

\* exactly one argument, a plain file named without a directory component
SingleBareFile ==
    /\ Len(paths) = 1
    /\ paths[1] \in Range(FSFiles)
    /\ PathSegments(paths[1]) = 1

\* C15: for one argument that is a plain file without a directory component
\* the NodeSequence has length 1, the root lookup never fails, rcid is the
\* identifier of that one node, that one node is handed to the emitter, and
\* when the emitter is through without a failed write the outbound stream
\* carries the frame of that node and of no other.
C15_SingleFile ==
    (SingleBareFile /\ pcCore \in {"resolve", "write", "done", "panicked"})
    => /\ Len(nodes) = 1
       /\ pcCore # "panicked"
       /\ Resolved =>
            /\ rcid = Cid(nodes[1])
            /\ emit = <<nodes[1]>>
            /\ \A i \in 1..Len(CoreItems) : CoreItems[i].idx = 0
            /\ (pcCore = "done" /\ writeErrs = <<>>) =>
                  /\ Len(CoreItems) = 3
                  /\ CoreItems = ExpectedItems(nodes, 0)

C15_Witness ==
    /\ SingleBareFile
    /\ pcCore = "done"
    /\ Len(rs) = 1
    /\ Len(nodes) = 1
    /\ rcid = Cid(nodes[1])
    /\ Len(CoreItems) = 3

\* the engine has returned without error and the metadata have been written
MetadataDone ==
    IF command = "fil-data-prep" THEN pcPkg = "done" ELSE pcMain = "returned"

\* the metadata a run writes; the flag is not an input
MetadataOf(cmd, root) ==
    IF cmd = "fil-data-prep"
    THEN <<[csv |-> root, yaml |-> root]>>
    ELSE <<[csv |-> <<"none">>, yaml |-> <<"none">>]>>

\* C16: in both commands, with the dry-run flag set the only entry point of
\* the Packaging Engine that is called is its dry run, without the flag it
\* is the one that writes the split archives, and in both modes a run in
\* which the engine succeeded and the metadata step finished has written
\* the same CSV and YAML metadata.
C16_DryRunWritesMetadata ==
    /\ engine # "none" =>
          engine = (IF dryRun THEN "SplitAndCommpDryRun" ELSE "SplitAndCommp")
    /\ MetadataDone => meta = MetadataOf(command, rcid)
    /\ meta # <<>> => MetadataDone

C16_Witness ==
    /\ dryRun
    /\ command = "split-and-commp"
    /\ engine = "SplitAndCommpDryRun"
    /\ pcMain = "returned"
    /\ meta = MetadataOf(command, rcid)

\* exactly one argument, written as an absolute path, naming a directory
SingleAbsoluteDir ==
    /\ Len(paths) = 1
    /\ Len(paths[1]) > 1
    /\ paths[1][1] = "/"
    /\ paths[1][Len(paths[1])] # "/"
    /\ paths[1] \in FSDirs

\* the last "/"-separated piece of a path
LastPiece(p) == Components(p)[Len(Components(p))]

\* C17: for one argument written as an absolute path to a directory, the
\* root lookup never fails, and the root is the node of the directory the
\* argument names: not the super-root, not a node of an ancestor, and the
\* index used is the position of that node in the NodeSequence (the one
\* position whose node has the pieces of the argument as its path).
C17_AbsolutePathRoot ==
    (SingleAbsoluteDir /\ pcCore \in {"write", "done", "panicked"})
    => /\ pcCore # "panicked"
       /\ emitBase > 0
       /\ emitBase < Len(nodes)
       /\ \A i \in 1..Len(nodes) :
             nodes[i].path = Components(paths[1]) <=> i = emitBase + 1
       /\ nodes[emitBase + 1].path[Len(nodes[emitBase + 1].path)] = LastPiece(paths[1])
       /\ rcid = Cid(nodes[emitBase + 1])
       /\ rcid # Cid(nodes[1])
       /\ emit = SubSeq(nodes, emitBase + 1, Len(nodes))

C17_Witness ==
    /\ paths = << <<"/", "a">> >>
    /\ pcCore = "done"
    /\ Len(rs) = 1
    /\ Len(nodes) = 3
    /\ emitBase = 2
    /\ nodes[3].path = << <<>>, <<"a">> >>
    /\ rcid = Cid(nodes[3])
    /\ Len(CoreItems) = 3

\* C18: once the Chunking Engine stage hangs, the descriptor channel is
\* never closed, the core stage stays in its read of the descriptor channel
\* (no tree assembly, no root, no frame, no close of the outbound channel),
\* the Packaging Engine never sees end-of-stream, no metadata is written,
\* and the invocation never returns: at least the chunking and the core
\* stage are still counted by the wait.
C18_HangDeadlocks ==
    pcChunk = "hung" =>
        /\ ~werrClosed
        /\ pcCore = "read"
        /\ nodes = <<>> /\ rcid = Undef /\ CoreItems = <<>>
        /\ ~woutClosed
        /\ pcPkg \in {"read", "closed", "panicked"}
        /\ meta = <<>>
        /\ wg >= 2
        /\ pcMain = "wait"

C18_Witness ==
    /\ pcChunk = "hung"
    /\ unit >= 1
    /\ blockSent
    /\ pcCore = "read"
    /\ pcPkg = "read"
    /\ pcMain = "wait"
    /\ wg = 3

AllStagesDone == pcChunk = "done" /\ pcCore = "done" /\ pcPkg = "done"

\* C19: the descriptor channel is closed whenever the chunking stage has
\* ended, the outbound channel is closed whenever the core stage has ended,
\* and once the three stages have been started the invocation eventually
\* returns with all three stages finished.
C19_PipelineTerminates ==
    /\ [](pcChunk = "done" => werrClosed)
    /\ [](pcCore \in {"done", "panicked"} => woutClosed)
    /\ (pcMain = "wait") ~> (pcMain = "returned" /\ AllStagesDone)

\* the lookup of the root is the one thing that keeps a started pipeline
\* from returning
TerminatesUnlessLookupFails ==
    (pcMain = "wait") ~> ((pcMain = "returned" /\ AllStagesDone) \/ failure = "index")

\* C20: with exactly one argument and a NodeSequence longer than one
\* element, the number of "/"-separated pieces of the argument is a valid
\* index into the NodeSequence, the core stage never fails on the root
\* lookup, and the outbound channel is closed only by the normal completion
\* of the core stage.
C20_RootIndexInRange ==
    (/\ Len(paths) = 1
     /\ Len(nodes) > 1
     /\ pcCore \in {"resolve", "write", "done", "panicked"})
    => /\ PathSegments(paths[1]) < Len(nodes)
       /\ pcCore # "panicked"
       /\ failure # "index"
       /\ woutClosed => pcCore = "done"

====
